---- MODULE Spec2Model ----
(***************************************************************************)
(* alfred: a single-threaded TCP front end to SQLite.                      *)
(*                                                                         *)
(* The model follows the event loop of main() in its complete version      *)
(* (src/unnamed/part_001; src/main.c is an earlier skeleton of the same    *)
(* loop whose transmit() and callback() are stubs).  One action stands for *)
(* one stretch of main() between two blocking calls: accept(), read(),     *)
(* a row callback out of sqlite3_exec(), the return of sqlite3_exec().     *)
(* The query engine is opaque: it invokes the callback with any rows and   *)
(* returns success or failure with a diagnostic text.                      *)
(*                                                                         *)
(* Bytes are one-character strings; NUL stands for the byte 0.  Texts are  *)
(* sequences of bytes.  A uint32_t is a pair <<hi, lo>> of 16-bit halves,  *)
(* its value hi * 65536 + lo, so that the whole range 0..2^32-1 and its    *)
(* wrap-around are represented exactly.                                    *)
(***************************************************************************)
EXTENDS Integers, Sequences, FiniteSets, TLC

VARIABLES
    pc,             \* where main() is blocked: "accept", "read", "exec", "exited"
    exit_code,      \* argument of exit(), -1 while the process runs
    prompt,         \* static int prompt (cleared by -n)
    read_sockfd,    \* static int read_sockfd
    req,            \* uint32_t req, the request sequence number
    arg,            \* the void* handed to sqlite3_exec() for the callback
    offload_buffer, \* the first offload_buffer_sz bytes of offload_buffer
    exec_text,      \* the C string sqlite3_exec() is running, empty outside it
    wire,           \* the write() calls on client sockets so far, in order
    write_failed,   \* a write() of transmit() in the last step returned n < 0
    open_fds,       \* client sockets the process holds open
    eof,            \* the client has closed: the next read() returns 0
    \* history variables, read by the properties only
    prior,          \* frames dispatched before the observed run began
    conn,           \* connections accepted so far
    raw,            \* bytes read() returned since accept or the last dispatch
    rows,           \* rows passed to callback() by the running sqlite3_exec()
    returns,        \* what each sqlite3_exec() call that returned has returned
    log             \* every dispatch so far: connection and request ID

vars == <<pc, exit_code, prompt, read_sockfd, req, arg, offload_buffer,
          exec_text, wire, write_failed, open_fds, eof, prior, conn, raw, rows,
          returns, log>>

----------------------------------------------------------------------------
(* Bounds of the model. *)
MaxBuf == 2        \* longest frame, and longest chunk one read() returns
MaxMsgs == 3       \* transmit() calls
MaxConn == 2       \* connections accepted
MaxCols == 2       \* columns of a result row

(* Program constants. *)
BUFFER_SIZE == 128
HALF == 65536      \* 2^16: a uint32_t is two halves of 16 bits
OK == 0
ERR == -1
DATA == 1
SIGPIPE == 13      \* raised by write() on a connection the client has closed

NL == "\n"
NUL == "NUL"
Bytes == {"a", NL, NUL}

(* What the engine may hand to the callback and return as a diagnostic. *)
\* argv[i] is a C string or the null pointer (an SQL NULL)
NULLPTR == [null |-> TRUE, text |-> <<>>]
ColumnNames == {<<"c">>}
ColumnValues == {[null |-> FALSE, text |-> <<"v">>], NULLPTR}
ErrTexts == {<<"e">>}
AcceptFds == {0, 4}

Chunks == UNION {[1..n -> Bytes] : n \in 1..MaxBuf}
Cells == [name : ColumnNames, value : ColumnValues]
Rows == UNION {[1..n -> Cells] : n \in 1..MaxCols}

Last(s) == s[Len(s)]

----------------------------------------------------------------------------
(* C library and formatting. *)

\* strncpy(dst, src, n): copies up to the first NUL of src, then pads with NUL.
Strncpy(src) ==
    [i \in 1..Len(src) |->
        IF \E j \in 1..i : src[j] = NUL THEN NUL ELSE src[i]]

\* Faulty variant: the terminator stored at offload_buffer_sz - 1, over the
\* newline.
CStringChopped(buf) ==
    LET cut == SubSeq(buf, 1, Len(buf) - 1) IN
    IF \E j \in 1..Len(cut) : cut[j] = NUL
    THEN SubSeq(cut, 1, (CHOOSE j \in 1..Len(cut) :
                            /\ cut[j] = NUL
                            /\ \A k \in 1..(j - 1) : cut[k] # NUL) - 1)
    ELSE cut

\* The C string that starts at buf, which is NUL-terminated at its end.
CString(buf) ==
    IF \E j \in 1..Len(buf) : buf[j] = NUL
    THEN SubSeq(buf, 1, (CHOOSE j \in 1..Len(buf) :
                            /\ buf[j] = NUL
                            /\ \A k \in 1..(j - 1) : buf[k] # NUL) - 1)
    ELSE buf

Digit(d) ==
    CASE d = 0 -> "0" [] d = 1 -> "1" [] d = 2 -> "2" [] d = 3 -> "3"
      [] d = 4 -> "4" [] d = 5 -> "5" [] d = 6 -> "6" [] d = 7 -> "7"
      [] d = 8 -> "8" [] d = 9 -> "9"

\* uint32_t values
U32Zero == <<0, 0>>
U32Max == <<HALF - 1, HALF - 1>>
DivTen(r) == <<r[1] \div 10, ((r[1] % 10) * HALF + r[2]) \div 10>>
ModTen(r) == ((r[1] % 10) * HALF + r[2]) % 10

RECURSIVE FormatNat(_)
FormatNat(n) ==
    IF n < 10 THEN <<Digit(n)>> ELSE FormatNat(n \div 10) \o <<Digit(n % 10)>>

\* Faulty variant: %hu, which prints the low 16 bits only.
FormatUShort(r) == FormatNat(r[2])

RECURSIVE FormatU(_)
\* printf's %u of a uint32_t
FormatU(r) ==
    IF r[1] = 0 /\ r[2] < 10 THEN <<Digit(r[2])>>
    ELSE FormatU(DivTen(r)) \o <<Digit(ModTen(r))>>

\* printf's %d of an enum response
FormatD(n) == IF n < 0 THEN <<"-">> \o FormatNat(0 - n) ELSE FormatNat(n)

\* sprintf(msg, "%u: %d: %s\n", req, code, data)
Sprintf(id, code, data) ==
    FormatU(id) \o <<":", " ">> \o FormatD(code) \o <<":", " ">> \o data \o <<NL>>

\* Faulty variant: argv[i] printed without the null check, as glibc prints a null %s.
EncodeNoNullCheck(cell) ==
    cell.name \o <<" ", "=", " ">>
        \o (IF cell.value.null THEN <<"(", "n", "u", "l", "l", ")">>
            ELSE cell.value.text)

\* sprintf(data, "%s = %s", column[i], argv[i] ? argv[i] : "NULL")
Encode(cell) ==
    cell.name \o <<" ", "=", " ">>
        \o (IF cell.value.null THEN <<"N", "U", "L", "L">> ELSE cell.value.text)

\* Faulty variant: ++ on a uint32_t* instead of a uint32_t (as src/main.c:127 declares
\* req), which advances the value by sizeof(uint32_t).
IncrementPointer(r) ==
    IF r[2] + 4 < HALF THEN <<r[1], r[2] + 4>>
    ELSE <<(r[1] + 1) % HALF, (r[2] + 4) % HALF>>

\* ++req on a uint32_t
Increment(r) ==
    IF r[2] + 1 < HALF THEN <<r[1], r[2] + 1>> ELSE <<(r[1] + 1) % HALF, 0>>

----------------------------------------------------------------------------
(* write() on the client socket. *)

Msgs(w) == Cardinality({i \in 1..Len(w) : w[i].kind = "msg"})

\* Faulty variant: one character allowed for the enum response.
TransmitAllocOneCharCode(data) == 10 + 2 + 1 + 2 + Len(data) + 2

\* Bytes transmit() allocates for msg: 10 for the uint32_t, ": ", 2 for the
\* enum response, ": ", the data, and 2 for "\n\0" (lines 203-208).
TransmitAlloc(data) == 10 + 2 + 2 + 2 + Len(data) + 2

\* Bytes callback() allocates for data: the column name, " = ", the value or
\* "NULL", and the terminator (lines 222-225).
CallbackAlloc(cell) ==
    Len(cell.name) + 3
        + (IF cell.value.null THEN 4 ELSE Len(cell.value.text)) + 1

\* One transmit(id, code, data) call: format the message and write it.  The
\* result of write() changes nothing but the count of "Error writing to
\* socket." line, recorded in write_failed by the actions.
Transmit(w, id, code, data) ==
    Append(w, [kind |-> "msg", conn |-> conn, rq |-> Len(log),
               id |-> id, code |-> code, data |-> data,
               alloc |-> TransmitAlloc(data),
               text |-> Sprintf(id, code, data)])

\* Faulty variant: the prompt written whether or not -n was given.
SendPromptAlways(w, c) ==
    Append(w, [kind |-> "prompt", conn |-> c, rq |-> Len(log),
               id |-> U32Zero, code |-> 0, data |-> <<>>, alloc |-> 0,
               text |-> <<">", " ">>])

\* SEND_PROMPT on connection c; the result of its write() is ignored
\* (IGNORE_RESULT), so no outcome is recorded for it.
SendPrompt(w, c) ==
    IF prompt
    THEN Append(w, [kind |-> "prompt", conn |-> c, rq |-> Len(log),
                    id |-> U32Zero, code |-> 0, data |-> <<>>, alloc |-> 0,
                    text |-> <<">", " ">>])
    ELSE w

\* Faulty variant: a single DATA message per callback, for the column at i only.
TransmitRowOnce(w, id, row, i) ==
    IF i > Len(row) THEN w ELSE Transmit(w, id, DATA, Encode(row[i]))

RECURSIVE TransmitRow(_, _, _, _)
\* The loop of callback() from column i on: one DATA message per column, in
\* column order.
TransmitRow(w, id, row, i) ==
    IF i > Len(row) THEN w
    ELSE TransmitRow(Transmit(w, id, DATA, Encode(row[i])), id, row, i + 1)

\* Faulty variant: the else of lines 362-364 lost, so OK follows ERR as well.
TerminalNoElse(w, id, res) ==
    IF res.rc # "SQLITE_OK"
    THEN Transmit(Transmit(w, id, ERR, res.err), id, OK, <<>>)
    ELSE Transmit(w, id, OK, <<>>)

\* Faulty variant: the terminal message left for later, the loop going on.
TerminalDeferred(w, id, res) == w

\* The terminal message of a request: lines 357-364 of main().
Terminal(w, id, res) ==
    IF res.rc # "SQLITE_OK"
    THEN Transmit(w, id, ERR, res.err)
    ELSE Transmit(w, id, OK, <<>>)

----------------------------------------------------------------------------
(* The engine, as far as main() sees it. *)

\* Faulty variant: req++ in place of ++req, which hands the callback the old value.
ExecArgPostIncrement(r) == r

\* Value of the expression (void*)(uintptr_t)++req, cast back by callback().
ExecArg(r) == Increment(r)

\* What sqlite3_exec() may return: SQLITE_OK, or an error code with *err set.
EngineResults ==
    {[rc |-> "SQLITE_OK", err |-> <<>>]}
        \cup {[rc |-> "SQLITE_ERROR", err |-> e] : e \in ErrTexts}

CountNL(s) == Cardinality({i \in 1..Len(s) : s[i] = NL})

----------------------------------------------------------------------------
\* exit(code) out of DIE or quit(): the process ends, which closes its
\* descriptors and releases its heap; what was written stays written.
Exit(code) ==
    /\ pc' = "exited"
    /\ exit_code' = code
    /\ open_fds' = {}
    /\ offload_buffer' = <<>>
    /\ exec_text' = <<>>
    /\ raw' = <<>>
    /\ write_failed' = FALSE
    /\ eof' = FALSE
    /\ UNCHANGED <<prompt, read_sockfd, req, arg, prior, conn, rows, returns,
                   log>>

Init ==
    /\ pc = "accept"
    /\ exit_code = -1
    /\ prompt \in BOOLEAN
    /\ read_sockfd = 0
    /\ prior = U32Zero
    /\ req = prior
    /\ arg = U32Zero
    /\ offload_buffer = <<>>
    /\ exec_text = <<>>
    /\ wire = <<>>
    /\ write_failed = FALSE
    /\ open_fds = {}
    /\ eof = FALSE
    /\ conn = 0
    /\ raw = <<>>
    /\ rows = <<>>
    /\ returns = <<>>
    /\ log = <<>>

\* Faulty variant: the request counter restarts with every connection.
AcceptResetsCounter(fd) ==
    /\ pc = "accept"
    /\ conn < MaxConn
    /\ fd \notin open_fds
    /\ read_sockfd' = fd
    /\ open_fds' = open_fds \cup {fd}
    /\ offload_buffer' = <<>>
    /\ req' = U32Zero
    /\ wire' = SendPrompt(wire, conn + 1)
    /\ pc' = "read"
    /\ conn' = conn + 1
    /\ raw' = <<>>
    /\ write_failed' = FALSE
    /\ eof' = FALSE
    /\ UNCHANGED <<exit_code, prompt, arg, exec_text, prior, rows, returns,
                   log>>

\* Faulty variant: offload_buffer_sz = 0 of line 331 lost.
AcceptKeepsBuffer(fd) ==
    /\ pc = "accept"
    /\ conn < MaxConn
    /\ fd \notin open_fds
    /\ read_sockfd' = fd
    /\ open_fds' = open_fds \cup {fd}
    /\ wire' = SendPrompt(wire, conn + 1)
    /\ pc' = "read"
    /\ conn' = conn + 1
    /\ raw' = <<>>
    /\ write_failed' = FALSE
    /\ eof' = FALSE
    /\ UNCHANGED <<exit_code, prompt, req, arg, offload_buffer, exec_text,
                   prior, rows, returns, log>>

\* accept() returns a descriptor; the per-connection state is reset and the
\* first prompt sent (lines 320-332).
Accept(fd) ==
    /\ pc = "accept"
    /\ conn < MaxConn
    /\ fd \notin open_fds
    /\ read_sockfd' = fd
    /\ open_fds' = open_fds \cup {fd}
    /\ offload_buffer' = <<>>
    /\ wire' = SendPrompt(wire, conn + 1)
    /\ pc' = "read"
    /\ conn' = conn + 1
    /\ raw' = <<>>
    /\ write_failed' = FALSE
    /\ eof' = FALSE
    /\ UNCHANGED <<exit_code, prompt, req, arg, exec_text, prior, rows,
                   returns, log>>

\* accept() fails: DIE (lines 320-323).
AcceptFail ==
    /\ pc = "accept"
    /\ Exit(1)
    /\ UNCHANGED wire

\* read() returns sz > 0 bytes: append them; when the buffer now ends in a
\* newline, terminate it, take the next request ID and enter sqlite3_exec()
\* (lines 333-358).
Read(chunk) ==
    /\ pc = "read"
    /\ ~eof
    /\ Len(chunk) <= BUFFER_SIZE
    /\ Len(offload_buffer) + Len(chunk) <= MaxBuf
    /\ LET buf == offload_buffer \o Strncpy(chunk) IN
        /\ offload_buffer' = buf
        /\ raw' = raw \o chunk
        /\ IF Last(buf) # NL
           THEN UNCHANGED <<pc, req, arg, exec_text, rows, log>>
           ELSE /\ Msgs(wire) + 1 <= MaxMsgs
                /\ req' = Increment(req)
                /\ arg' = ExecArg(req)
                /\ exec_text' = CString(buf)
                /\ rows' = <<>>
                /\ log' = Append(log, [conn |-> conn, id |-> req'])
                /\ pc' = "exec"
    /\ write_failed' = FALSE
    /\ UNCHANGED <<exit_code, prompt, read_sockfd, wire, open_fds, prior, conn,
                   returns, eof>>

\* Faulty variant: the failure reported to the client before the exit.
ReadOOMReports ==
    /\ pc = "read"
    /\ Exit(1)
    /\ wire' = Transmit(wire, req, ERR, <<"e">>)

\* read() returned sz > 0 bytes and xrealloc() fails while growing or
\* terminating the buffer: DIE (lines 338-349, 176-182).
ReadOOM ==
    /\ pc = "read"
    /\ Exit(1)
    /\ UNCHANGED wire

\* The client closes its end after the last byte it sent was read: from now
\* on read() on the connection returns 0 (line 333).
ClientClose ==
    /\ pc \in {"read", "exec"}
    /\ ~eof
    /\ eof' = TRUE
    /\ write_failed' = FALSE
    /\ UNCHANGED <<pc, exit_code, prompt, read_sockfd, req, arg,
                   offload_buffer, exec_text, wire, open_fds, prior, conn, raw,
                   rows, returns, log>>

\* Faulty variant: the loop of src/main.c:243-244, which goes back to accept() without
\* closing the client socket.
ReadEndNoClose ==
    /\ pc = "read"
    /\ read_sockfd' = 0
    /\ pc' = "accept"
    /\ write_failed' = FALSE
    /\ eof' = FALSE
    /\ UNCHANGED <<exit_code, prompt, req, arg, offload_buffer, exec_text,
                   wire, open_fds, prior, conn, raw, rows, returns, log>>

\* Faulty variant: a read() of zero or less retried instead of ending the loop.
ReadEndRetries ==
    /\ pc = "read"
    /\ write_failed' = FALSE
    /\ UNCHANGED <<pc, exit_code, prompt, read_sockfd, req, arg,
                   offload_buffer, exec_text, wire, open_fds, eof, prior, conn,
                   raw, rows, returns, log>>

\* read() returns zero or a negative value: the loop ends, the socket is
\* closed and main() goes back to accept() (lines 333, 371-374).
ReadEnd ==
    /\ pc = "read"
    /\ open_fds' = open_fds \ {read_sockfd}
    /\ read_sockfd' = 0
    /\ pc' = "accept"
    /\ write_failed' = FALSE
    /\ eof' = FALSE
    /\ UNCHANGED <<exit_code, prompt, req, arg, offload_buffer, exec_text,
                   wire, prior, conn, raw, rows, returns, log>>

\* The engine passes one row to callback(), which returns (lines 217-231).
\* failed: one of the row's write() calls returns n < 0.
Callback(row, failed) ==
    /\ pc = "exec"
    /\ Msgs(wire) + Len(row) + 1 <= MaxMsgs
    /\ wire' = TransmitRow(wire, arg, row, 1)
    /\ write_failed' = failed
    /\ rows' = Append(rows, row)
    /\ UNCHANGED <<pc, exit_code, prompt, read_sockfd, req, arg,
                   offload_buffer, exec_text, open_fds, prior, conn, raw,
                   returns, log, eof>>

\* The process ends inside callback() after k of the row's columns were
\* sent: xrealloc() fails (exit 1) or a signal runs quit() (exit 0).
CallbackCut(row, k, code) ==
    /\ pc = "exec"
    /\ k < Len(row)
    /\ Msgs(wire) + Len(row) + 1 <= MaxMsgs
    /\ wire' = TransmitRow(wire, arg, SubSeq(row, 1, k), 1)
    /\ Exit(code)

\* Faulty variant: continue after the ERR message, which skips the reset of
\* line 368.
ExecReturnErrSkipsReset(res, failed) ==
    /\ pc = "exec"
    /\ wire' = SendPrompt(Terminal(wire, req, res), conn)
    /\ write_failed' = failed
    /\ offload_buffer' = (IF res.rc # "SQLITE_OK" THEN offload_buffer ELSE <<>>)
    /\ raw' = <<>>
    /\ exec_text' = <<>>
    /\ rows' = <<>>
    /\ returns' = Append(returns, res)
    /\ pc' = "read"
    /\ UNCHANGED <<exit_code, prompt, read_sockfd, req, arg, open_fds, prior,
                   conn, log, eof>>

\* sqlite3_exec() returns: the terminal message, the buffer reset and the
\* prompt (lines 357-369).
\* failed: the write() of the terminal message returns n < 0.
ExecReturn(res, failed) ==
    /\ pc = "exec"
    /\ wire' = SendPrompt(Terminal(wire, req, res), conn)
    /\ write_failed' = failed
    /\ offload_buffer' = <<>>
    /\ raw' = <<>>
    /\ exec_text' = <<>>
    /\ rows' = <<>>
    /\ returns' = Append(returns, res)
    /\ pc' = "read"
    /\ UNCHANGED <<exit_code, prompt, read_sockfd, req, arg, open_fds, prior,
                   conn, log, eof>>

\* sqlite3_exec() returned and xrealloc() fails in transmit() of the terminal
\* message: DIE (lines 203-208, 176-182).
TransmitOOM(res) ==
    /\ pc = "exec"
    /\ pc' = "exited"
    /\ exit_code' = 1
    /\ open_fds' = {}
    /\ offload_buffer' = <<>>
    /\ exec_text' = <<>>
    /\ raw' = <<>>
    /\ returns' = Append(returns, res)
    /\ write_failed' = FALSE
    /\ eof' = FALSE
    /\ UNCHANGED <<prompt, read_sockfd, req, arg, wire, prior, conn, rows,
                   log>>

\* The process is ended by SIGPIPE inside a write(): main() installs handlers
\* for SIGTERM and SIGINT only (line 310) and transmit() uses plain write()
\* (line 210), so the default action of SIGPIPE applies.  write() raises it
\* once the client has closed and an earlier write on the connection has
\* been answered with a reset.
Killed ==
    /\ pc' = "exited"
    /\ exit_code' = 128 + SIGPIPE
    /\ open_fds' = {}
    /\ offload_buffer' = <<>>
    /\ exec_text' = <<>>
    /\ raw' = <<>>
    /\ write_failed' = TRUE
    /\ eof' = FALSE
    /\ UNCHANGED <<prompt, read_sockfd, req, arg, prior, conn, rows, log>>

\* SIGPIPE in callback(), in the write() of column k + 1 of the row.
CallbackSigpipe(row, k) ==
    /\ pc = "exec"
    /\ eof
    /\ k < Len(row)
    /\ Msgs(wire) + Len(row) + 1 <= MaxMsgs
    /\ LET w == TransmitRow(wire, arg, SubSeq(row, 1, k), 1) IN
        /\ \E j \in 1..Len(w) : w[j].conn = conn
        /\ wire' = w
    /\ returns' = returns
    /\ Killed

\* SIGPIPE after sqlite3_exec() returned: in the write() of the terminal
\* message, or (atPrompt) in the write() of the prompt that follows it.
ExecReturnSigpipe(res, atPrompt) ==
    /\ pc = "exec"
    /\ eof
    /\ atPrompt => prompt
    /\ IF atPrompt
       THEN wire' = Terminal(wire, req, res)
       ELSE /\ \E j \in 1..Len(wire) : wire[j].conn = conn
            /\ wire' = wire
    /\ returns' = Append(returns, res)
    /\ Killed

\* SIGTERM or SIGINT: quit() closes the sockets and exits (lines 161-173).
Quit ==
    /\ pc # "exited"
    /\ Exit(0)
    /\ UNCHANGED wire

Next ==
    \/ \E fd \in AcceptFds : Accept(fd)
    \/ AcceptFail
    \/ \E chunk \in Chunks : Read(chunk)
    \/ ReadOOM
    \/ ReadEnd
    \/ ClientClose
    \/ \E row \in Rows, failed \in BOOLEAN : Callback(row, failed)
    \/ \E row \in Rows, k \in 0..MaxCols, code \in {0, 1} : CallbackCut(row, k, code)
    \/ \E res \in EngineResults, failed \in BOOLEAN : ExecReturn(res, failed)
    \/ \E res \in EngineResults : TransmitOOM(res)
    \/ \E row \in Rows, k \in 0..MaxCols : CallbackSigpipe(row, k)
    \/ \E res \in EngineResults, atPrompt \in BOOLEAN : ExecReturnSigpipe(res, atPrompt)
    \/ Quit

Spec == Init /\ [][Next]_vars

\* Every blocking call returns: read() on the connection returns its bytes or
\* its end, and sqlite3_exec() returns and the write() of the terminal
\* message after it.
ReadReturns == (\E chunk \in Chunks : Read(chunk)) \/ ReadEnd
ExecReturns == \E res \in EngineResults, failed \in BOOLEAN : ExecReturn(res, failed)

SpecFair == Init /\ [][Next]_vars /\ WF_vars(ReadReturns) /\ WF_vars(ExecReturns)

\* The same program observed from a start or from two requests short of the
\* counter's wrap-around, run with -n.
InitWrap ==
    /\ pc = "accept"
    /\ exit_code = -1
    /\ prompt = FALSE
    /\ read_sockfd = 0
    /\ prior \in {U32Zero, <<HALF - 1, HALF - 2>>}
    /\ req = prior
    /\ arg = U32Zero
    /\ offload_buffer = <<>>
    /\ exec_text = <<>>
    /\ wire = <<>>
    /\ write_failed = FALSE
    /\ open_fds = {}
    /\ eof = FALSE
    /\ conn = 0
    /\ raw = <<>>
    /\ rows = <<>>
    /\ returns = <<>>
    /\ log = <<>>

SpecWrap == InitWrap /\ [][Next]_vars

\* The same program with an engine that also supplies texts holding a
\* newline: the value of SELECT char(10), and the diagnostic of an
\* unterminated string literal, which quotes the input up to its end.
LineRows == {<<[name |-> <<"c">>, value |-> [null |-> FALSE, text |-> <<NL>>]]>>}
LineResults == {[rc |-> "SQLITE_ERROR", err |-> <<"'", NL>>]}

NextLines ==
    \/ \E fd \in AcceptFds : Accept(fd)
    \/ AcceptFail
    \/ \E chunk \in Chunks : Read(chunk)
    \/ ReadOOM
    \/ ReadEnd
    \/ ClientClose
    \/ \E row \in Rows \cup LineRows, failed \in BOOLEAN : Callback(row, failed)
    \/ \E row \in Rows, k \in 0..MaxCols, code \in {0, 1} : CallbackCut(row, k, code)
    \/ \E res \in EngineResults \cup LineResults, failed \in BOOLEAN :
            ExecReturn(res, failed)
    \/ \E res \in EngineResults : TransmitOOM(res)
    \/ \E row \in Rows, k \in 0..MaxCols : CallbackSigpipe(row, k)
    \/ \E res \in EngineResults, atPrompt \in BOOLEAN : ExecReturnSigpipe(res, atPrompt)
    \/ Quit

SpecLines == Init /\ [][NextLines]_vars

----------------------------------------------------------------------------
(* Reading the history. *)

\* r + k on uint32_t values, computed from the two halves.
U32Add(r, k) ==
    LET lo == r[2] + k IN <<(r[1] + (lo \div HALF)) % HALF, lo % HALF>>

Running == pc # "exited"
NulFree(s) == \A i \in 1..Len(s) : s[i] # NUL
MsgIx == {i \in 1..Len(wire) : wire[i].kind = "msg"}
TermIx == {i \in MsgIx : wire[i].code \in {OK, ERR}}
DataIx == {i \in MsgIx : wire[i].code = DATA}
\* The terminal messages and the DATA messages of dispatch q.
TermOf(q) == {i \in TermIx : wire[i].rq = q}
DataOf(q) == {i \in DataIx : wire[i].rq = q}
IsData(m) == m.kind = "msg" /\ m.code = DATA
IsCurrentData(m) == IsData(m) /\ m.rq = Len(log)
\* The payloads of the DATA messages of the running request, in order.
CurrentData ==
    LET d == SelectSeq(wire, IsCurrentData) IN [i \in 1..Len(d) |-> d[i].data]

RECURSIVE SumCols(_)
SumCols(rs) == IF rs = <<>> THEN 0 ELSE Len(rs[1]) + SumCols(Tail(rs))

\* "<name> = <value>", a null value written NULL.
Rendered(cell) ==
    IF cell.value.null
    THEN cell.name \o <<" ", "=", " ", "N", "U", "L", "L">>
    ELSE cell.name \o <<" ", "=", " ">> \o cell.value.text

RECURSIVE RenderedRows(_)
RenderedRows(rs) ==
    IF rs = <<>> THEN <<>>
    ELSE [i \in 1..Len(rs[1]) |-> Rendered(rs[1][i])] \o RenderedRows(Tail(rs))

----------------------------------------------------------------------------
\* C1: N newline-terminated requests on a connection, however read() cuts the
\* bytes into chunks, get N terminal messages, in order, with consecutive
\* IDs.  Each dispatch writes one terminal message, so this asks that a
\* dispatched frame holds exactly one newline-terminated request, that no
\* sequence of complete requests stays behind in the buffer, and that the
\* terminal messages of a connection carry consecutive IDs in the order
\* written.  The first two are asked of plain text only (no NUL byte).
C1_OneTerminalPerRequest ==
    /\ (pc = "exec" /\ NulFree(raw)) => CountNL(raw) = 1
    /\ (pc = "read" /\ NulFree(raw) /\ raw # <<>>) => Last(raw) # NL
    /\ \A i \in TermIx, j \in TermIx :
        (/\ i < j
         /\ wire[i].conn = wire[j].conn
         /\ \A k \in TermIx : ~(i < k /\ k < j))
            => wire[j].id = U32Add(wire[i].id, 1)

\* C2: the messages are grouped by request in dispatch order: a DATA message
\* carries the ID of the request being executed, the DATA messages of a
\* request come before its terminal message, and nothing of a later request
\* of the connection is written before the terminal message of an earlier one.
C2_GroupedByRequest ==
    /\ \A i \in MsgIx :
        /\ wire[i].rq \in 1..Len(log)
        /\ wire[i].id = log[wire[i].rq].id
        /\ wire[i].conn = log[wire[i].rq].conn
    /\ \A i \in MsgIx, j \in MsgIx :
        i < j =>
            /\ wire[i].rq <= wire[j].rq
            /\ wire[i].rq = wire[j].rq => wire[i].code = DATA
            /\ (wire[i].rq < wire[j].rq /\ wire[i].conn = wire[j].conn)
                  => \E t \in TermOf(wire[i].rq) : t < j

C2_Witness ==
    \E i \in DataIx, j \in TermIx, k \in MsgIx :
        /\ i < j /\ j < k
        /\ wire[i].rq = wire[j].rq
        /\ wire[k].rq = wire[j].rq + 1
        /\ wire[k].conn = wire[j].conn

\* C3: while the process runs, a dispatch whose sqlite3_exec() has returned
\* has exactly one terminal message, OK with an empty payload after success
\* and ERR with the diagnostic after failure; a dispatch whose sqlite3_exec()
\* has not returned has none.  No dispatch ever has two.
C3_OneTerminal ==
    \A q \in 1..Len(log) :
        /\ Cardinality(TermOf(q)) <= 1
        /\ \A t \in TermOf(q) :
            /\ q <= Len(returns)
            /\ returns[q].rc = "SQLITE_OK" => wire[t].code = OK /\ wire[t].data = <<>>
            /\ returns[q].rc # "SQLITE_OK"
                  => wire[t].code = ERR /\ wire[t].data = returns[q].err
        /\ (Running /\ q <= Len(returns)) => Cardinality(TermOf(q)) = 1

C3_Witness ==
    /\ pc = "read"
    /\ \E q \in 1..Len(returns) : returns[q].rc = "SQLITE_OK"
    /\ \E q \in 1..Len(returns) :
        /\ returns[q].rc # "SQLITE_OK"
        /\ \E t \in TermOf(q) : wire[t].code = ERR

\* C4: the counter is a uint32_t that starts at 0 and goes up by one modulo
\* 2^32 with each dispatch, before the engine runs and whatever the engine
\* returns: the k-th dispatch has the ID (start + k) mod 2^32, so the first
\* one after startup has ID 1 and the one after 4294967295 has ID 0.
C4_Counter ==
    /\ req[1] \in 0..(HALF - 1) /\ req[2] \in 0..(HALF - 1)
    /\ req = U32Add(prior, Len(log))
    /\ pc = "exec" => arg = req
    /\ \A i \in MsgIx : wire[i].id = U32Add(prior, wire[i].rq)
    /\ (prior = U32Zero /\ Len(log) >= 1) => log[1].id = <<0, 1>>
    /\ \A q \in 1..(Len(log) - 1) : log[q].id = U32Max => log[q + 1].id = U32Zero

C4_Witness ==
    /\ pc = "read"
    /\ \E i \in TermIx, j \in TermIx :
        /\ i < j
        /\ wire[i].id = U32Max /\ wire[i].code = ERR
        /\ wire[j].id = U32Zero

\* C5: accept() and the end of a connection leave the counter alone: outside
\* sqlite3_exec() the counter is the ID of the last dispatch of any
\* connection, the first dispatch of a connection has the ID after the last
\* one of the connection before, and a connection starts with fill length 0.
C5_CounterAcrossConnections ==
    /\ pc \in {"accept", "read"} =>
        req = (IF log = <<>> THEN prior ELSE Last(log).id)
    /\ \A q \in 2..Len(log) :
        /\ log[q].conn >= log[q - 1].conn
        /\ log[q].id = U32Add(log[q - 1].id, 1)
    /\ \A i \in TermIx, j \in TermIx :
        (i < j /\ \A k \in TermIx : ~(i < k /\ k < j))
            => wire[j].id = U32Add(wire[i].id, 1)
    /\ (pc = "read" /\ raw = <<>>) => Len(offload_buffer) = 0

C5_Witness ==
    /\ conn = 2
    /\ \E i \in TermIx, j \in TermIx :
        /\ wire[i].conn = 1 /\ wire[j].conn = 2
        /\ wire[i].id = <<0, 1>> /\ wire[j].id = <<0, 2>>

\* C6: a request that arrives in several chunks is dispatched once, with one
\* ID, and the text the engine gets is the concatenation of the chunks read
\* since the last frame completed or since accept().
C6_FrameIsConcatenation ==
    pc = "exec" =>
        /\ exec_text = raw
        /\ Len(log) >= 1 /\ Last(log).id = req /\ arg = req
        /\ \A q \in 1..(Len(log) - 1) : log[q].id # req

\* C7: a read() of zero or less ends the connection with no error: the bytes
\* of an unterminated frame are not dispatched, take no ID and cause no
\* message; the server is back in accept(); and the next connection starts
\* with an empty buffer, so that a frame is made of bytes of its own
\* connection only.
C7_DisconnectDropsPartialFrame ==
    /\ [][(pc = "read" /\ pc' = "accept")
            => /\ req' = req /\ log' = log /\ wire' = wire
               /\ exit_code' = -1 /\ returns' = returns]_vars
    /\ [][(pc = "accept" /\ pc' = "read") => offload_buffer' = <<>>]_vars
    /\ [](pc \in {"read", "exec"} =>
            /\ Len(offload_buffer) = Len(raw)
            /\ \A i \in 1..Len(raw) : offload_buffer[i] \in {raw[i], NUL})
    /\ [](pc = "exec" =>
            /\ Len(exec_text) <= Len(raw)
            /\ \A i \in 1..Len(exec_text) : exec_text[i] = raw[i])

C7_Witness ==
    /\ pc = "accept"
    /\ conn >= 1
    /\ offload_buffer # <<>>
    /\ NulFree(offload_buffer)
    /\ Last(offload_buffer) # NL
    /\ exit_code = -1
    /\ open_fds = {}

\* C8: connections are handled one after another: at most one client socket
\* is open, none while the server waits in accept(), and the one of the
\* current connection while it reads or executes.
C8_OneConnection ==
    /\ Cardinality(open_fds) <= 1
    /\ pc = "accept" => open_fds = {}
    /\ pc \in {"read", "exec"} => open_fds = {read_sockfd}

C8_Witness ==
    /\ conn = 2
    /\ pc = "read"
    /\ open_fds = {read_sockfd}

\* C9: a callback with columns c1..ck writes k DATA messages in column order,
\* the i-th with payload "<name_i> = <value_i>" and NULL for a null value:
\* the DATA payloads of the running request are the rendered cells of its
\* rows, in order; none when the engine has passed no row.
C9_RowEncoding ==
    pc = "exec" =>
        /\ CurrentData = RenderedRows(rows)
        /\ rows = <<>> => DataOf(Len(log)) = {}

C9_Witness ==
    /\ pc = "exec"
    /\ Len(rows) = 1
    /\ Len(rows[1]) = 2
    /\ rows[1][1].value.null /\ ~rows[1][2].value.null
    /\ Len(CurrentData) = 2

\* C10 as stated: one DATA message per row, whatever the number of columns.
C10_OneMessagePerRow ==
    pc = "exec" => Cardinality(DataOf(Len(log))) = Len(rows)

\* C10 amended: one DATA message per column value: a request whose rows have
\* k_1..k_a columns has k_1 + ... + k_a DATA messages, which is a exactly
\* when every row has a single column and more than a otherwise.
C10_OneMessagePerColumn ==
    pc = "exec" =>
        /\ Cardinality(DataOf(Len(log))) = SumCols(rows)
        /\ (\A r \in 1..Len(rows) : Len(rows[r]) = 1)
              <=> Cardinality(DataOf(Len(log))) = Len(rows)
        /\ Cardinality(DataOf(Len(log))) >= Len(rows)

C10_Witness ==
    /\ pc = "exec"
    /\ Len(rows) = 1
    /\ Cardinality(DataOf(Len(log))) = 2

----------------------------------------------------------------------------
(* Reading a message text back. *)

Digits == {"0", "1", "2", "3", "4", "5", "6", "7", "8", "9"}
DigitVal(c) == CHOOSE d \in 0..9 : Digit(d) = c

RECURSIVE ParseU(_)
\* The uint32_t a decimal numeral denotes, by Horner's rule on the halves.
ParseU(t) ==
    IF t = <<>> THEN U32Zero
    ELSE LET h == ParseU(SubSeq(t, 1, Len(t) - 1))
             lo == h[2] * 10 + DigitVal(Last(t))
         IN <<(h[1] * 10 + (lo \div HALF)) % HALF, lo % HALF>>

\* A decimal numeral of 1 to 10 digits without a leading zero.
IsNumeral(t) ==
    /\ Len(t) \in 1..10
    /\ \A i \in 1..Len(t) : t[i] \in Digits
    /\ Len(t) > 1 => t[1] # "0"

CodeText(code) ==
    CASE code = OK -> <<"0">> [] code = ERR -> <<"-", "1">> [] code = DATA -> <<"1">>

\* C11: every message transmit() writes is "<id>: <code>: <payload>\n": <id>
\* the decimal numeral of the 32-bit request ID, <code> one of 0, -1, 1 and
\* <payload> the data as given (empty for OK); no other code is ever sent.
C11_MessageText ==
    \A i \in MsgIx :
        LET m == wire[i] IN
        /\ m.code \in {OK, ERR, DATA}
        /\ m.code = OK => m.data = <<>>
        /\ \E n \in 1..10 :
            /\ n <= Len(m.text)
            /\ IsNumeral(SubSeq(m.text, 1, n))
            /\ ParseU(SubSeq(m.text, 1, n)) = m.id
            /\ SubSeq(m.text, n + 1, Len(m.text))
                = <<":", " ">> \o CodeText(m.code) \o <<":", " ">> \o m.data \o <<NL>>

C11_Witness ==
    /\ \E i \in MsgIx :
        /\ wire[i].id = U32Max /\ wire[i].code = DATA
        /\ Len(wire[i].text) = 10 + 2 + 1 + 2 + 8 + 1
    /\ \E i \in MsgIx : wire[i].id = U32Zero /\ wire[i].code = ERR
    /\ \E i \in MsgIx : wire[i].code = OK

PromptIx == {i \in 1..Len(wire) : wire[i].kind = "prompt"}
\* The prompts that follow a terminal message of their connection directly.
AfterTerminal ==
    {i \in PromptIx : i - 1 \in TermIx /\ wire[i - 1].conn = wire[i].conn}
\* The prompts that are the first thing written on their connection.
AfterAccept == {i \in PromptIx : \A j \in 1..(i - 1) : wire[j].conn < wire[i].conn}

\* C12: with the prompt enabled, "> " is written once after each accept()
\* before anything else on the connection, once right after each terminal
\* message while the process runs, and nowhere else (so never between the
\* DATA messages of a request and its terminal message); with the prompt
\* disabled it is never written.
C12_Prompt ==
    /\ ~prompt => PromptIx = {}
    /\ \A i \in PromptIx : wire[i].text = <<">", " ">>
    /\ prompt =>
        /\ PromptIx = AfterTerminal \cup AfterAccept
        /\ AfterTerminal \cap AfterAccept = {}
        /\ Cardinality(AfterAccept) = conn
        /\ \A c \in 1..conn : \E i \in AfterAccept : wire[i].conn = c
        /\ Running => \A t \in TermIx : t + 1 \in AfterTerminal
        /\ \A i \in PromptIx : i - 1 \in DataIx => wire[i - 1].conn < wire[i].conn

C12_Witness ==
    /\ prompt
    /\ conn = 2
    /\ pc = "read"
    /\ \E t \in TermIx : t - 1 \in DataIx /\ t + 1 \in PromptIx
    /\ Cardinality(PromptIx) = 4

\* C13: a failed write() of a response message is not fatal: in the step
\* where it fails the process goes on, the connection stays open, every
\* message of the step is still attempted, and the counter and the buffer
\* end up as after a successful write (after the terminal message: fill
\* length 0, the counter unchanged, the server reading the next frame).
C13_WriteFailureNonFatal ==
    [][write_failed' =>
        /\ pc' # "exited"
        /\ open_fds' = open_fds /\ read_sockfd' = read_sockfd
        /\ req' = req
        /\ pc' = "exec" =>
            /\ Len(rows') = Len(rows) + 1
            /\ Msgs(wire') = Msgs(wire) + Len(Last(rows'))
        /\ pc' = "read" =>
            /\ Msgs(wire') = Msgs(wire) + 1
            /\ offload_buffer' = <<>>]_vars

\* C14: a failed query is confined to its request: when sqlite3_exec()
\* returns, with success or with failure alike, the connection stays open,
\* the fill length is 0 and the counter is the ID of the request just
\* answered, one more than before the dispatch; the next frame of the
\* connection gets the next ID, and after a failure it may succeed or fail.
C14_FailureConfined ==
    /\ [][(pc = "exec" /\ pc' = "read") =>
            /\ open_fds' = open_fds /\ read_sockfd' = read_sockfd
            /\ open_fds' = {read_sockfd'}
            /\ offload_buffer' = <<>>
            /\ req' = Last(log).id
            /\ req' = U32Add(prior, Len(log))
            /\ exit_code' = -1]_vars
    /\ [](\A q \in 1..(Len(log) - 1) : log[q + 1].id = U32Add(log[q].id, 1))
    /\ []((pc = "exec" /\ returns # <<>> /\ Last(returns).rc # "SQLITE_OK")
            => \A res \in EngineResults : ENABLED ExecReturn(res, FALSE))

C14_Witness ==
    /\ pc = "read"
    /\ Len(returns) = 2
    /\ returns[1].rc # "SQLITE_OK" /\ returns[2].rc = "SQLITE_OK"
    /\ log[1].conn = log[2].conn
    /\ \E i \in TermIx, j \in TermIx :
        /\ wire[i].id = <<0, 1>> /\ wire[i].code = ERR
        /\ wire[j].id = <<0, 2>> /\ wire[j].code = OK

\* C15 as stated: a frame is dispatched exactly when the buffer ends in a
\* newline after a chunk was appended, the text dispatched is the whole
\* buffer with that newline, and the fill length is 0 after the dispatch.
C15_WholeBufferDispatched ==
    /\ (pc = "read" /\ offload_buffer # <<>>) => Last(offload_buffer) # NL
    /\ pc = "exec" => (Last(offload_buffer) = NL /\ exec_text = offload_buffer)
    /\ (pc = "read" /\ raw = <<>>) => Len(offload_buffer) = 0

\* C15 amended: the dispatch happens exactly when the stored buffer ends in a
\* newline and the fill length is 0 afterwards, but the text dispatched is
\* the stored buffer up to its first NUL byte: the whole buffer, newline
\* included, only when it holds no NUL byte.
C15_BufferUpToNulDispatched ==
    /\ (pc = "read" /\ offload_buffer # <<>>) => Last(offload_buffer) # NL
    /\ pc = "exec" =>
        /\ Last(offload_buffer) = NL
        /\ NulFree(exec_text)
        /\ Len(exec_text) <= Len(offload_buffer)
        /\ \A i \in 1..Len(exec_text) : exec_text[i] = offload_buffer[i]
        /\ Len(exec_text) < Len(offload_buffer)
              => offload_buffer[Len(exec_text) + 1] = NUL
        /\ NulFree(offload_buffer) => exec_text = offload_buffer
    /\ (pc = "read" /\ raw = <<>>) => Len(offload_buffer) = 0

C15_Witness ==
    /\ pc = "exec"
    /\ offload_buffer = <<NUL, NL>>
    /\ exec_text = <<>>
    /\ Len(returns) = 1

\* C16: a chunk of sz bytes is appended byte for byte, an embedded NUL byte
\* and what follows it included: the bytes stored are the bytes read, so a
\* chunk whose last byte is the newline ends the frame even after a NUL.
C16_ByteForByte ==
    /\ pc \in {"read", "exec"} => offload_buffer = raw
    /\ (pc = "read" /\ raw # <<>>) => Last(raw) # NL

\* The dispatches that have no terminal message yet.
Unanswered == {q \in 1..Len(log) : TermOf(q) = {}}

\* C17: execution is synchronous: at most one request is in flight, it is
\* the last one dispatched and main() is inside sqlite3_exec() for it; a
\* step that reads from the connection or accepts a connection is taken only
\* when every dispatched request has its terminal message, and, with the
\* prompt enabled, when the last thing written is the prompt.
C17_Synchronous ==
    /\ [](Cardinality(Unanswered) <= 1)
    /\ [](pc = "exec" => Unanswered = {Len(log)})
    /\ [](pc \in {"accept", "read"} => Unanswered = {})
    /\ [][(Len(raw') > Len(raw) \/ conn' # conn \/ log' # log) =>
            /\ pc # "exec"
            /\ Unanswered = {}
            /\ (prompt /\ wire # <<>>) => Last(wire).kind = "prompt"]_vars
    /\ [][pc = "exec" =>
            (pc' \in {"exec", "exited"} \/ (pc' = "read" /\ Unanswered' = {}))]_vars

C17_Witness ==
    /\ pc = "read"
    /\ raw # <<>>
    /\ prompt
    /\ Len(returns) = 1
    /\ DataOf(1) # {}
    /\ Last(wire).kind = "prompt"

\* C18: termination never happens in the middle of a query: whenever the
\* process has exited or the client socket is closed, every dispatched
\* request has had its terminal message written.
C18_NoExitMidQuery ==
    (pc = "exited" \/ open_fds = {}) => \A q \in 1..Len(log) : TermOf(q) # {}

\* C19: an allocation failure while the frame buffer grows ends the whole
\* process: the step out of the read loop with exit code 1 writes no message,
\* dispatches nothing and takes no ID, and nothing happens after an exit: no
\* write, no dispatch, no accept.
C19_AllocationFailureFatal ==
    /\ [][(pc = "read" /\ exit_code' = 1) =>
            /\ pc' = "exited"
            /\ wire' = wire /\ log' = log /\ req' = req /\ returns' = returns
            /\ open_fds' = {}]_vars
    /\ [][pc # "exited"]_vars
    /\ [](pc = "exited" <=> exit_code # -1)

C19_Witness ==
    /\ pc = "exited"
    /\ exit_code = 1
    /\ read_sockfd = 4
    /\ Len(log) = 1
    /\ TermOf(1) # {}

\* C20: every response message is exactly one line of the output: its one
\* newline is its last byte, whatever column name, value or diagnostic text
\* the payload was made of.
C20_OneLinePerMessage ==
    \A i \in MsgIx :
        /\ CountNL(wire[i].text) = 1
        /\ Last(wire[i].text) = NL

\* C21: the assertion of transmit(), read_sockfd > 0, holds at every call:
\* transmit() runs only inside sqlite3_exec() and right after it, where a
\* client connection is open and read_sockfd is its descriptor, for every
\* descriptor accept() can return without being taken for a failure.
C21_AssertionHolds ==
    pc = "exec" =>
        /\ read_sockfd \in open_fds
        /\ read_sockfd > 0

\* C22: when read(), sqlite3_exec() and write() always return, every
\* dispatched frame gets its terminal message (main() leaves sqlite3_exec(),
\* and leaves it for the read loop only with the terminal message written),
\* and once the client has closed the connection the server gets back to
\* accept() (the closed connection ends, and ends only in accept()); the
\* only way out of either is the exit of the process, which is also the only
\* way the connection loop ends.
C22_Progress ==
    /\ (pc = "exec") ~> (pc \in {"read", "exited"})
    /\ [][(pc = "exec" /\ pc' = "read") => TermOf(Len(log))' # {}]_vars
    /\ eof ~> ~eof
    /\ [][(eof /\ ~eof') => (pc' \in {"accept", "exited"} /\ conn' = conn)]_vars
    /\ [](pc = "exited" <=> exit_code # -1)
    /\ [][pc = "exited" => pc' = "exited"]_vars

C22_Witness ==
    /\ pc = "exec"
    /\ eof
    /\ conn = 2
    /\ Len(log) = 2
    /\ DataOf(2) # {}

\* C23: the buffers sized by hand are large enough: the bytes transmit()
\* allocated for a message hold its text and the terminating NUL, for every
\* request ID up to 4294967295, every code and every payload, and the bytes
\* callback() allocates for a cell hold "<name> = <value>" and its NUL.
C23_BuffersLargeEnough ==
    /\ \A i \in MsgIx : Len(wire[i].text) + 1 <= wire[i].alloc
    /\ \A r \in 1..Len(rows) : \A i \in 1..Len(rows[r]) :
        Len(Encode(rows[r][i])) + 1 <= CallbackAlloc(rows[r][i])

C23_Witness ==
    /\ \E i \in MsgIx :
        /\ wire[i].id = U32Max /\ wire[i].code = ERR
        /\ Len(wire[i].text) + 1 = wire[i].alloc
    /\ \E i \in MsgIx : wire[i].id = U32Zero /\ Len(wire[i].text) + 1 < wire[i].alloc
    /\ pc = "exec"
    /\ \E r \in 1..Len(rows) : \E i \in 1..Len(rows[r]) : rows[r][i].value.null

====
